---- MODULE Spec2Model ----
(***************************************************************************)
(* Model of torrent_gui.py: the add dialog's tri-state file tree            *)
(* (TorrentAddingDialog), the main window's torrent list (MainWindow) and   *)
(* the background control thread (ControlManagerThread).                    *)
(*                                                                          *)
(* Three specifications share the variables:                                *)
(*   SpecDialog    one add dialog, driven by clicks                         *)
(*   SpecRegistry  the three list handlers, driven by arbitrary events      *)
(*   Spec          main(): both threads, the engine, the two queues         *)
(***************************************************************************)
EXTENDS Integers, Sequences, FiniteSets, TLC

VARIABLES
    \* ---- TorrentAddingDialog ----
    tree,                   \* index into FileTrees: download_info.file_tree
    check_state,            \* item -> Qt.CheckState of column 0
    selection_label,        \* arguments of the text of _selection_label
    ok_enabled,             \* isEnabled() of the Ok button
    selected_download_dir,  \* TorrentAddingDialog.selected_download_dir
    path_edit,              \* text of _path_edit
    dialog,                 \* "open" | "submitted" | "closed"
    last_click,             \* the last itemClicked delivered to the dialog
    submitted,              \* what submit_torrent handed to the loop
    \* ---- MainWindow ----
    list_widget,            \* the rows of _list_widget: [item, state]
    torrent_to_item,        \* _torrent_to_item: info_hash -> item
    reg_op,                 \* the last handler call on the list
    reg_result,             \* how it ended: "ok" | "KeyError"
    \* ---- main(), ControlManagerThread, ControlManager ----
    fg_pc,                  \* where the foreground (Qt) thread is
    th_pc,                  \* where ControlManagerThread.run is
    loop,                   \* _loop: "None" | "open" | "closed"
    loop_stopping,          \* loop.stop() was called and not yet obeyed
    loopq,                  \* callbacks scheduled onto the loop, oldest first
    last_cb,                \* the last callback the loop ran: what its call
                            \* of the engine raised, what it ended with
    evq,                    \* signals queued for the foreground, oldest first
    torrents,               \* the engine: info_hash -> "absent" | "running" | "paused"
    load_left,              \* torrents of state.bin that load has still to add
    state_file_bad,         \* state.bin cannot be read to its end
    stopping,               \* _stopping
    stop_fut,               \* the future of control.stop(): "none" | "pending" | "pending_cb" | "done"
    stop_calls,             \* calls of stop()
    stop_first_th,          \* th_pc at the first call of stop()
    stop_scheduled,         \* times control.stop() was scheduled onto the loop
    shutdowns,              \* times control.stop() ran
    loads,                  \* times _load_state ran
    saves,                  \* times _save_state ran
    joins,                  \* times wait() returned
    fg_exc,                 \* the last exception raised in the foreground
    adding,                 \* the torrent of the open add dialog, or 0
    seen                    \* info_hash -> "none", or which of "added" and "removed"
                            \* was dispatched last for it

dlgVars == <<tree, check_state, selection_label, ok_enabled,
             selected_download_dir, path_edit, dialog, last_click, submitted>>

regVars == <<list_widget, torrent_to_item, reg_op, reg_result>>

brVars == <<fg_pc, th_pc, loop, loop_stopping, loopq, last_cb, evq, torrents,
            load_left, state_file_bad, stopping, stop_fut, stop_calls,
            stop_first_th, stop_scheduled, shutdowns, loads, saves, joins,
            fg_exc, adding, seen>>

vars == <<dlgVars, regVars, brVars>>

-----------------------------------------------------------------------------
(* Qt.CheckState *)
Checked == "Checked"
Unchecked == "Unchecked"
PartiallyChecked == "PartiallyChecked"

(* The file trees a dialog is opened on.  Item 1 is the top-level item;   *)
(* parent[i] = 0 for it.  An item with no child is a FileInfo of that     *)
(* length; a directory has length 0 here and at least one child.          *)
(*   1: /a/x.txt(100) /a/y.txt(200) /b/z.txt(50)                          *)
(*   2: a single-file torrent: the top-level item is the file             *)
(*   3: /d/e/p(10) /d/e/q(20) /r(30): three levels of directories         *)
(*   4: /f(5): a multi-file torrent of one file                            *)
FileTrees ==
    << [parent |-> <<0, 1, 1, 2, 2, 3>>, length |-> <<0, 0, 0, 100, 200, 50>>,
        single_file_mode |-> FALSE],
       [parent |-> <<0>>, length |-> <<7>>, single_file_mode |-> TRUE],
       [parent |-> <<0, 1, 2, 3, 3, 1>>, length |-> <<0, 0, 0, 10, 20, 30>>,
        single_file_mode |-> FALSE],
       [parent |-> <<0, 1>>, length |-> <<0, 5>>, single_file_mode |-> FALSE] >>

DownloadDirs == {"cwd", "other"}

Items(t) == 1..Len(FileTrees[t].parent)
Parent(t, i) == FileTrees[t].parent[i]
Children(t, i) == {c \in Items(t) : Parent(t, c) = i}
IsFile(t, i) == Children(t, i) = {}

RECURSIVE Ancestors(_, _)
Ancestors(t, i) ==
    IF Parent(t, i) = 0 THEN {}
    ELSE {Parent(t, i)} \cup Ancestors(t, Parent(t, i))

Descendants(t, i) == {d \in Items(t) : i \in Ancestors(t, d)}

(* self._file_items: the (node, item) pairs of the files, in tree order *)
FileItems(t) == SelectSeq([i \in Items(t) |-> i], LAMBDA i : IsFile(t, i))

(* What a click on a check box does to it before itemClicked is emitted:  *)
(* the items are user-checkable and not user-tristate.                    *)
Toggle(s) == IF s = Checked THEN Unchecked ELSE Checked

(* _set_check_state_to_tree: every item below `item` gets check_state *)
SetCheckStateToTreeBug(t, cs, item, state) ==
    [i \in Items(t) |-> IF i \in Children(t, item) THEN state ELSE cs[i]]
SetCheckStateToTree(t, cs, item, state) ==
    [i \in Items(t) |-> IF i \in Descendants(t, item) THEN state ELSE cs[i]]

(* lines 158-175: the state an ancestor gets from its children's states *)
NewStateBug(t, cs, item) ==
    LET has_checked_children == \E c \in Children(t, item) : cs[c] = Checked
        has_unchecked_children ==
            \E c \in Children(t, item) : cs[c] \notin {Checked, PartiallyChecked}
    IN  IF ~has_unchecked_children THEN Checked
        ELSE IF has_checked_children THEN PartiallyChecked
        ELSE Unchecked
NewState(t, cs, item) ==
    LET has_checked_children == \E c \in Children(t, item) : cs[c] = Checked
        has_partially_checked_children ==
            \E c \in Children(t, item) : cs[c] = PartiallyChecked
        has_unchecked_children ==
            \E c \in Children(t, item) : cs[c] \notin {Checked, PartiallyChecked}
    IN  IF ~has_partially_checked_children /\ ~has_unchecked_children
        THEN Checked
        ELSE IF has_checked_children \/ has_partially_checked_children
        THEN PartiallyChecked
        ELSE Unchecked

(* lines 153-176: the walk from item.parent() up to the top-level item *)
RECURSIVE UpdateAncestors(_, _, _)
UpdateAncestors(t, cs, item) ==
    LET p == Parent(t, item)
    IN  IF p = 0 THEN cs
        ELSE UpdateAncestors(t, [cs EXCEPT ![p] = NewState(t, cs, p)], p)

RECURSIVE SumLengths(_, _)
SumLengths(t, s) ==
    IF s = <<>> THEN 0
    ELSE FileTrees[t].length[Head(s)] + SumLengths(t, Tail(s))

(* lines 181-186 and 200-203: the files whose item is Checked, in          *)
(* _file_items order; a file stands for its node and so for its path       *)
CheckedFilesBug(t, cs) == FileItems(t)
CheckedFiles(t, cs) == SelectSeq(FileItems(t), LAMBDA i : cs[i] = Checked)

(* lines 188-195: the label; humanize_size's argument stands for its text *)
SelectionLabelBug(t, cs) ==
    [fmt |-> "Selected {} files ({})",
     count |-> Len(CheckedFiles(t, cs)),
     size |-> SumLengths(t, FileItems(t))]
SelectionLabel(t, cs) ==
    IF Len(CheckedFiles(t, cs)) = 0
    THEN [fmt |-> "Nothing to download"]
    ELSE [fmt |-> "Selected {} files ({})",
          count |-> Len(CheckedFiles(t, cs)),
          size |-> SumLengths(t, CheckedFiles(t, cs))]

OkEnabledBug(t, cs) == TRUE
OkEnabled(t, cs) == Len(CheckedFiles(t, cs)) # 0

(* lines 88-138: every item Checked, the label from download_info, Ok enabled *)
InitDialog ==
    /\ tree \in 1..Len(FileTrees)
    /\ check_state = [i \in Items(tree) |-> Checked]
    /\ selection_label =
           [fmt |-> "Selected {} files ({})",
            count |-> Len(FileItems(tree)),
            size |-> SumLengths(tree, FileItems(tree))]
    /\ ok_enabled = TRUE
    /\ selected_download_dir \in DownloadDirs
    /\ path_edit = selected_download_dir
    /\ dialog = "open"
    /\ last_click = [item |-> 0, column |-> 0, kind |-> "none"]
    /\ submitted = [done |-> FALSE]

(* _update_checkboxes(item, column), on the check states `cs` the click left *)
UpdateCheckboxes(cs, item, column, kind) ==
    /\ last_click' = [item |-> item, column |-> column, kind |-> kind]
    /\ IF column # 0
       THEN /\ check_state' = cs
            /\ UNCHANGED <<selection_label, ok_enabled>>
       ELSE LET down == SetCheckStateToTree(tree, cs, item, cs[item])
                up == UpdateAncestors(tree, down, item)
            IN  /\ check_state' = up
                /\ selection_label' = SelectionLabel(tree, up)
                /\ ok_enabled' = OkEnabled(tree, up)
    /\ UNCHANGED <<tree, selected_download_dir, path_edit, dialog, submitted>>
    /\ UNCHANGED <<regVars, brVars>>

(* a click on an item's check box: Qt toggles it, then emits itemClicked *)
ClickCheckBox(item) ==
    /\ dialog = "open"
    /\ UpdateCheckboxes([check_state EXCEPT ![item] = Toggle(@)], item, 0, "box")

(* a click on an item's name: itemClicked(item, 0), the box as it was *)
ClickName(item) ==
    /\ dialog = "open"
    /\ UpdateCheckboxes(check_state, item, 0, "name")

(* a click on an item's size: itemClicked(item, 1) *)
ClickSize(item) ==
    /\ dialog = "open"
    /\ UpdateCheckboxes(check_state, item, 1, "size")

(* _browse: a directory chosen, or the file dialog cancelled ("") *)
Browse(new_download_dir) ==
    /\ dialog = "open"
    /\ new_download_dir # ""
    /\ selected_download_dir' = new_download_dir
    /\ path_edit' = new_download_dir
    /\ UNCHANGED <<tree, check_state, selection_label, ok_enabled, dialog,
                   last_click, submitted>>
    /\ UNCHANGED <<regVars, brVars>>

(* submit_torrent, the Ok button's clicked slot: only an enabled button clicks *)
SubmitTorrent ==
    /\ dialog = "open"
    /\ ok_enabled
    /\ submitted' =
           [done |-> TRUE,
            download_dir |-> selected_download_dir,
            file_paths |-> CheckedFiles(tree, check_state),
            select_files |-> ~FileTrees[tree].single_file_mode]
    /\ dialog' = "submitted"
    /\ UNCHANGED <<tree, check_state, selection_label, ok_enabled,
                   selected_download_dir, path_edit, last_click>>
    /\ UNCHANGED <<regVars, brVars>>

(* the Cancel button: self.close *)
CancelDialog ==
    /\ dialog = "open"
    /\ dialog' = "closed"
    /\ UNCHANGED <<tree, check_state, selection_label, ok_enabled,
                   selected_download_dir, path_edit, last_click, submitted>>
    /\ UNCHANGED <<regVars, brVars>>

NextDialog ==
    \/ \E item \in Items(tree) : ClickCheckBox(item)
    \/ \E item \in Items(tree) : ClickName(item)
    \/ \E item \in Items(tree) : ClickSize(item)
    \/ \E d \in DownloadDirs \cup {""} : Browse(d)
    \/ SubmitTorrent
    \/ CancelDialog

-----------------------------------------------------------------------------
(* MainWindow: the torrent list and its three handlers *)

NumTorrents == 2
MaxItems == 2

InfoHashes == 1..NumTorrents

(* TorrentState.suggested_name: fixed by the torrent, so by its info_hash; *)
(* names are ordered as the integers, and two torrents may share one.      *)
SuggestedName(info_hash) == ((info_hash + 1) % 2) + 1

TorrentStates ==
    {[info_hash |-> h, suggested_name |-> SuggestedName(h), paused |-> p] :
        h \in InfoHashes, p \in BOOLEAN}

(* a QListWidgetItem not in the list: the objects are told apart by number *)
NewItem(lw) ==
    CHOOSE n \in 1..(Len(lw) + 1) : \A k \in 1..Len(lw) : lw[k].item # n

(* lines 333-338: the rows passed before the first greater name *)
ItemsUpperBug(lw, name) == 0
ItemsUpper(lw, name) ==
    IF \E k \in 1..Len(lw) : lw[k].state.suggested_name > name
    THEN (CHOOSE k \in 1..Len(lw) :
              /\ lw[k].state.suggested_name > name
              /\ \A m \in 1..(k - 1) : lw[m].state.suggested_name <= name) - 1
    ELSE Len(lw)

(* QListWidget.insertItem(row, item) *)
InsertItem(lw, row, entry) ==
    SubSeq(lw, 1, row) \o <<entry>> \o SubSeq(lw, row + 1, Len(lw))

(* QListWidget.row(item): the position of the item, 1-based here *)
Row(lw, item) == CHOOSE k \in 1..Len(lw) : lw[k].item = item

(* QListWidget.takeItem(row) *)
TakeItem(lw, row) == SubSeq(lw, 1, row - 1) \o SubSeq(lw, row + 1, Len(lw))

(* _add_torrent_item(state) *)
AddTorrentItem(lw, t2i, state) ==
    LET item == NewItem(lw)
        items_upper == ItemsUpper(lw, state.suggested_name)
    IN  [lw |-> InsertItem(lw, items_upper, [item |-> item, state |-> state]),
         t2i |-> [h \in DOMAIN t2i \cup {state.info_hash} |->
                     IF h = state.info_hash THEN item ELSE t2i[h]],
         result |-> "ok"]

(* _update_torrent_item(state) *)
UpdateTorrentItemBug(lw, t2i, state) ==
    IF state.info_hash \notin DOMAIN t2i
    THEN [lw |-> lw, t2i |-> t2i, result |-> "ok"]
    ELSE [lw |-> [k \in 1..Len(lw) |->
                     IF lw[k].state.info_hash = state.info_hash
                     THEN [lw[k] EXCEPT !.state = state] ELSE lw[k]],
          t2i |-> t2i, result |-> "ok"]
UpdateTorrentItem(lw, t2i, state) ==
    IF state.info_hash \notin DOMAIN t2i
    THEN [lw |-> lw, t2i |-> t2i, result |-> "KeyError"]
    ELSE [lw |-> [k \in 1..Len(lw) |->
                     IF lw[k].item = t2i[state.info_hash]
                     THEN [lw[k] EXCEPT !.state = state] ELSE lw[k]],
          t2i |-> t2i, result |-> "ok"]

(* _remove_torrent_item(info_hash) *)
RemoveTorrentItem(lw, t2i, info_hash) ==
    IF info_hash \notin DOMAIN t2i
    THEN [lw |-> lw, t2i |-> t2i, result |-> "KeyError"]
    ELSE [lw |-> TakeItem(lw, Row(lw, t2i[info_hash])),
          t2i |-> [h \in DOMAIN t2i \ {info_hash} |-> t2i[h]],
          result |-> "ok"]

(* MainWindow.__init__: an empty list and an empty dictionary *)
InitRegistry ==
    /\ list_widget = <<>>
    /\ torrent_to_item = <<>>
    /\ reg_op = [op |-> "none"]
    /\ reg_result = "ok"

Handled(op, state, r) ==
    /\ list_widget' = r.lw
    /\ torrent_to_item' = r.t2i
    /\ reg_op' = [op |-> op, state |-> state]
    /\ reg_result' = r.result
    /\ UNCHANGED <<dlgVars, brVars>>

(* torrent_added delivered *)
RegAdd(state) ==
    /\ Len(list_widget) < MaxItems
    /\ Handled("add", state, AddTorrentItem(list_widget, torrent_to_item, state))

(* torrent_changed delivered *)
RegUpdate(state) ==
    Handled("update", state, UpdateTorrentItem(list_widget, torrent_to_item, state))

(* torrent_removed delivered: only the info_hash travels *)
RegRemove(info_hash) ==
    Handled("remove", [info_hash |-> info_hash],
            RemoveTorrentItem(list_widget, torrent_to_item, info_hash))

NextRegistry ==
    \/ \E state \in TorrentStates : RegAdd(state)
    \/ \E state \in TorrentStates : RegUpdate(state)
    \/ \E info_hash \in InfoHashes : RegRemove(info_hash)

-----------------------------------------------------------------------------
(* main(): the foreground thread, ControlManagerThread and the engine *)

NumEngineTorrents == 1
MaxQueue == 1
MaxStopCalls == 2

EngineHashes == 1..NumEngineTorrents

ControlKinds == {"pause", "resume", "remove"}

(* Where the foreground thread is:                                          *)
(*   "main"            before control_thread.start()            line 467    *)
(*   "connect_stop"    before lastWindowClosed.connect          line 469    *)
(*   "connect_added"   in MainWindow.__init__, before           line 318    *)
(*   "connect_changed"                                          line 319    *)
(*   "connect_removed"                                          line 320    *)
(*   "exec"            in app.exec(), the main window open      line 471    *)
(*   "dialog"          in TorrentAddingDialog.exec()            line 383    *)
(*   "message_box"     in QMessageBox.critical()                line 380    *)
(*   "stop_cb"         in stop(), before add_done_callback      line 449    *)
(*   "wait"            in stop(), in self.wait()                line 451    *)
(*   "closed"          the last window closed, stop() over                  *)
(* Where ControlManagerThread.run is:                                       *)
(*   "unstarted", "new_loop" (431), "start" (434), "load" (436),            *)
(*   "run" (439), "save" (441), "close" (leaving line 433's with),          *)
(*   "finished"                                                             *)

(* lines 318-320: the signals connected, by the foreground's place *)
Connected(sig) ==
    CASE sig = "added" ->
             fg_pc \notin {"main", "connect_stop", "connect_added"}
      [] sig = "changed" ->
             fg_pc \notin {"main", "connect_stop", "connect_added",
                           "connect_changed"}
      [] sig = "removed" ->
             fg_pc \notin {"main", "connect_stop", "connect_added",
                           "connect_changed", "connect_removed"}

(* a signal emitted on the background thread: queued for each connected   *)
(* slot of the foreground thread, and lost when there is none             *)
Emit(q, ev) == IF Connected(ev.sig) THEN Append(q, ev) ELSE q

CanEmit(sig) == Connected(sig) => Len(evq) < MaxQueue

StateOf(h, paused) ==
    [info_hash |-> h, suggested_name |-> SuggestedName(h), paused |-> paused]

(* ControlManager.add / pause / resume / remove on the engine's torrents: *)
(* the torrents after the call, the signal it emits, what it raises       *)
EngineCall(ts, kind, h) ==
    CASE kind = "add" ->
             IF ts[h] # "absent"
             THEN [ts |-> ts, emits |-> <<>>, raises |-> "ValueError"]
             ELSE [ts |-> [ts EXCEPT ![h] = "running"],
                   emits |-> <<[sig |-> "added", state |-> StateOf(h, FALSE)]>>,
                   raises |-> "none"]
      [] kind = "pause" ->
             IF ts[h] = "absent"
             THEN [ts |-> ts, emits |-> <<>>, raises |-> "ValueError"]
             ELSE [ts |-> [ts EXCEPT ![h] = "paused"],
                   emits |-> <<[sig |-> "changed", state |-> StateOf(h, TRUE)]>>,
                   raises |-> "none"]
      [] kind = "resume" ->
             IF ts[h] = "absent"
             THEN [ts |-> ts, emits |-> <<>>, raises |-> "ValueError"]
             ELSE [ts |-> [ts EXCEPT ![h] = "running"],
                   emits |-> <<[sig |-> "changed", state |-> StateOf(h, FALSE)]>>,
                   raises |-> "none"]
      [] kind = "remove" ->
             IF ts[h] = "absent"
             THEN [ts |-> ts, emits |-> <<>>, raises |-> "ValueError"]
             ELSE [ts |-> [ts EXCEPT ![h] = "absent"],
                   emits |-> <<[sig |-> "removed", state |-> [info_hash |-> h]]>>,
                   raises |-> "none"]

(* _invoke_control_action: what the coroutine ends with, given what the   *)
(* action raised                                                          *)
InvokeControlActionBug(raised) == raised
InvokeControlAction(raised) == IF raised = "ValueError" THEN "none" ELSE raised

(* Who learns that a callback of the loop ended in an exception: the      *)
(* loop logs the exception of control.add, a plain callback (line 207);   *)
(* the exception of a coroutine goes to the future that line 396 drops,   *)
(* and a ValueError caught at line 390 goes nowhere.                      *)
Reported(kind, raised) ==
    IF kind = "add" /\ raised # "none" THEN "logged" ELSE "none"

(* call_soon_threadsafe / run_coroutine_threadsafe on self._loop: what the *)
(* caller gets raised                                                      *)
ScheduleRaises(l) ==
    CASE l = "None" -> "AttributeError"
      [] l = "closed" -> "RuntimeError"
      [] OTHER -> "none"

(* line 444: stop() returns at once *)
StopReturnsAtOnceBug(flag) == FALSE
StopReturnsAtOnce(flag) == flag

InitBridge ==
    /\ fg_pc = "main"
    /\ th_pc = "unstarted"
    /\ loop = "None"
    /\ loop_stopping = FALSE
    /\ loopq = <<>>
    /\ last_cb = [kind |-> "none"]
    /\ evq = <<>>
    /\ torrents = [h \in EngineHashes |-> "absent"]
    /\ load_left \in SUBSET EngineHashes
    /\ state_file_bad \in BOOLEAN
    /\ stopping = FALSE
    /\ stop_fut = "none"
    /\ stop_calls = 0
    /\ stop_first_th = "none"
    /\ stop_scheduled = 0
    /\ shutdowns = 0
    /\ loads = 0
    /\ saves = 0
    /\ joins = 0
    /\ fg_exc = "none"
    /\ adding = 0
    /\ seen = [h \in EngineHashes |-> "none"]

(* ------------------------- the foreground thread ------------------------ *)

(* line 467: control_thread.start() *)
ThreadStart ==
    /\ fg_pc = "main"
    /\ fg_pc' = "connect_stop"
    /\ th_pc' = "new_loop"
    /\ UNCHANGED <<loop, loop_stopping, loopq, last_cb, evq, torrents,
                   load_left, state_file_bad, stopping, stop_fut, stop_calls,
                   stop_first_th, stop_scheduled, shutdowns, loads, saves,
                   joins, fg_exc, adding, seen>>
    /\ UNCHANGED <<dlgVars, regVars>>

(* lines 469, 318, 319, 320 and 471, one connect at a time *)
MainStep ==
    /\ fg_pc \in {"connect_stop", "connect_added", "connect_changed",
                  "connect_removed"}
    /\ fg_pc' = CASE fg_pc = "connect_stop" -> "connect_added"
                  [] fg_pc = "connect_added" -> "connect_changed"
                  [] fg_pc = "connect_changed" -> "connect_removed"
                  [] fg_pc = "connect_removed" -> "exec"
    /\ UNCHANGED <<th_pc, loop, loop_stopping, loopq, last_cb, evq, torrents,
                   load_left, state_file_bad, stopping, stop_fut, stop_calls,
                   stop_first_th, stop_scheduled, shutdowns, loads, saves,
                   joins, fg_exc, adding, seen>>
    /\ UNCHANGED <<dlgVars, regVars>>

(* the foreground's event loop delivers the oldest queued signal *)
DispatchEvent ==
    /\ fg_pc \in {"exec", "dialog", "message_box"}
    /\ evq # <<>>
    /\ LET ev == Head(evq)
           h == ev.state.info_hash
           r == CASE ev.sig = "added" ->
                        AddTorrentItem(list_widget, torrent_to_item, ev.state)
                  [] ev.sig = "changed" ->
                        UpdateTorrentItem(list_widget, torrent_to_item, ev.state)
                  [] ev.sig = "removed" ->
                        RemoveTorrentItem(list_widget, torrent_to_item, h)
       IN  /\ evq' = Tail(evq)
           /\ list_widget' = r.lw
           /\ torrent_to_item' = r.t2i
           /\ reg_op' = [op |-> CASE ev.sig = "added" -> "add"
                                  [] ev.sig = "changed" -> "update"
                                  [] ev.sig = "removed" -> "remove",
                         state |-> ev.state]
           /\ reg_result' = r.result
           /\ fg_exc' = IF r.result = "ok" THEN fg_exc ELSE r.result
           /\ seen' = IF ev.sig = "changed" THEN seen
                      ELSE [seen EXCEPT ![h] = ev.sig]
    /\ UNCHANGED <<fg_pc, th_pc, loop, loop_stopping, loopq, last_cb,
                   torrents, load_left, state_file_bad, stopping, stop_fut,
                   stop_calls, stop_first_th, stop_scheduled, shutdowns, loads,
                   saves, joins, adding>>
    /\ UNCHANGED dlgVars

(* _add_torrent_triggered for the torrent file of `h`: the message box of *)
(* line 380 when `h` is a key of _torrent_to_item, the add dialog if not  *)
AddTorrentTriggered(h) ==
    /\ fg_pc = "exec"
    /\ IF h \in DOMAIN torrent_to_item
       THEN fg_pc' = "message_box" /\ UNCHANGED adding
       ELSE fg_pc' = "dialog" /\ adding' = h
    /\ UNCHANGED <<th_pc, loop, loop_stopping, loopq, last_cb, evq, torrents,
                   load_left, state_file_bad, stopping, stop_fut, stop_calls,
                   stop_first_th, stop_scheduled, shutdowns, loads, saves,
                   joins, fg_exc, seen>>
    /\ UNCHANGED <<dlgVars, regVars>>

(* line 381: the message box is closed, _add_torrent_triggered returns *)
MessageBoxClosed ==
    /\ fg_pc = "message_box"
    /\ fg_pc' = "exec"
    /\ UNCHANGED <<th_pc, loop, loop_stopping, loopq, last_cb, evq, torrents,
                   load_left, state_file_bad, stopping, stop_fut, stop_calls,
                   stop_first_th, stop_scheduled, shutdowns, loads, saves,
                   joins, fg_exc, adding, seen>>
    /\ UNCHANGED <<dlgVars, regVars>>

(* submit_torrent, line 207: control.add handed to the loop *)
DialogSubmit ==
    /\ fg_pc = "dialog"
    /\ Len(loopq) < MaxQueue
    /\ IF ScheduleRaises(loop) = "none"
       THEN /\ loopq' = Append(loopq, [kind |-> "add", info_hash |-> adding])
            /\ UNCHANGED fg_exc
       ELSE /\ fg_exc' = ScheduleRaises(loop)
            /\ UNCHANGED loopq
    /\ fg_pc' = "exec"
    /\ adding' = 0
    /\ UNCHANGED <<th_pc, loop, loop_stopping, last_cb, evq, torrents,
                   load_left, state_file_bad, stopping, stop_fut, stop_calls,
                   stop_first_th, stop_scheduled, shutdowns, loads, saves,
                   joins, seen>>
    /\ UNCHANGED <<dlgVars, regVars>>

(* the dialog's Cancel button *)
DialogCancel ==
    /\ fg_pc = "dialog"
    /\ fg_pc' = "exec"
    /\ adding' = 0
    /\ UNCHANGED <<th_pc, loop, loop_stopping, loopq, last_cb, evq, torrents,
                   load_left, state_file_bad, stopping, stop_fut, stop_calls,
                   stop_first_th, stop_scheduled, shutdowns, loads, saves,
                   joins, fg_exc, seen>>
    /\ UNCHANGED <<dlgVars, regVars>>

(* _update_control_action_state: the toolbar action is enabled for the    *)
(* selected rows                                                          *)
ActionEnabled(kind, rows) ==
    CASE kind = "pause" -> \E k \in rows : ~list_widget[k].state.paused
      [] kind = "resume" -> \E k \in rows : list_widget[k].state.paused
      [] kind = "remove" -> rows # {}

(* lines 394-396: one coroutine per selected row, in the rows' order *)
RECURSIVE ControlCallbacks(_, _, _)
ControlCallbacks(kind, rows, k) ==
    IF k > Len(list_widget) THEN <<>>
    ELSE (IF k \in rows
          THEN <<[kind |-> kind, info_hash |-> list_widget[k].state.info_hash]>>
          ELSE <<>>) \o ControlCallbacks(kind, rows, k + 1)

(* _control_action_triggered(action) with the rows `rows` selected *)
ControlActionTriggered(kind, rows) ==
    /\ fg_pc = "exec"
    /\ rows # {}
    /\ ActionEnabled(kind, rows)
    /\ Len(loopq) + Cardinality(rows) <= MaxQueue
    /\ IF ScheduleRaises(loop) = "none"
       THEN /\ loopq' = loopq \o ControlCallbacks(kind, rows, 1)
            /\ UNCHANGED fg_exc
       ELSE /\ fg_exc' = ScheduleRaises(loop)
            /\ UNCHANGED loopq
    /\ UNCHANGED <<fg_pc, th_pc, loop, loop_stopping, last_cb, evq, torrents,
                   load_left, state_file_bad, stopping, stop_fut, stop_calls,
                   stop_first_th, stop_scheduled, shutdowns, loads, saves,
                   joins, adding, seen>>
    /\ UNCHANGED <<dlgVars, regVars>>

(* stop(), lines 444-448: called when the last window closes *)
Stop ==
    /\ fg_pc \in {"exec", "closed"}
    /\ stop_calls < MaxStopCalls
    /\ stop_calls' = stop_calls + 1
    /\ stop_first_th' = IF stop_calls = 0 THEN th_pc ELSE stop_first_th
    /\ IF StopReturnsAtOnce(stopping)
       THEN /\ fg_pc' = "closed"
            /\ UNCHANGED <<stopping, loopq, stop_fut, stop_scheduled, fg_exc>>
       ELSE /\ stopping' = TRUE
            /\ IF ScheduleRaises(loop) = "none"
               THEN /\ loopq' = Append(loopq, [kind |-> "stop", info_hash |-> 0])
                    /\ stop_fut' = "pending"
                    /\ stop_scheduled' = stop_scheduled + 1
                    /\ fg_pc' = "stop_cb"
                    /\ UNCHANGED fg_exc
               ELSE /\ fg_exc' = ScheduleRaises(loop)
                    /\ fg_pc' = "closed"
                    /\ UNCHANGED <<loopq, stop_fut, stop_scheduled>>
    /\ UNCHANGED <<th_pc, loop, loop_stopping, last_cb, evq, torrents,
                   load_left, state_file_bad, shutdowns, loads, saves, joins,
                   adding, seen>>
    /\ UNCHANGED <<dlgVars, regVars>>

(* stop(), line 449: a callback added to a future that is done runs at    *)
(* once, on the calling thread                                            *)
StopAddDoneCallback ==
    /\ fg_pc = "stop_cb"
    /\ IF stop_fut = "done"
       THEN loop_stopping' = TRUE /\ UNCHANGED stop_fut
       ELSE stop_fut' = "pending_cb" /\ UNCHANGED loop_stopping
    /\ fg_pc' = "wait"
    /\ UNCHANGED <<th_pc, loop, loopq, last_cb, evq, torrents, load_left,
                   state_file_bad, stopping, stop_calls, stop_first_th,
                   stop_scheduled, shutdowns, loads, saves, joins, fg_exc,
                   adding, seen>>
    /\ UNCHANGED <<dlgVars, regVars>>

(* stop(), line 451: wait() returns once run() has returned *)
StopWait ==
    /\ fg_pc = "wait"
    /\ th_pc = "finished"
    /\ joins' = joins + 1
    /\ fg_pc' = "closed"
    /\ UNCHANGED <<th_pc, loop, loop_stopping, loopq, last_cb, evq, torrents,
                   load_left, state_file_bad, stopping, stop_fut, stop_calls,
                   stop_first_th, stop_scheduled, shutdowns, loads, saves,
                   fg_exc, adding, seen>>
    /\ UNCHANGED <<dlgVars, regVars>>

(* ------------------------- ControlManagerThread.run --------------------- *)

(* lines 431-432 *)
NewEventLoop ==
    /\ th_pc = "new_loop"
    /\ loop' = "open"
    /\ th_pc' = "start"
    /\ UNCHANGED <<fg_pc, loop_stopping, loopq, last_cb, evq, torrents,
                   load_left, state_file_bad, stopping, stop_fut, stop_calls,
                   stop_first_th, stop_scheduled, shutdowns, loads, saves,
                   joins, fg_exc, adding, seen>>
    /\ UNCHANGED <<dlgVars, regVars>>

(* line 434: run_until_complete(control.start()) *)
ControlStart ==
    /\ th_pc = "start"
    /\ th_pc' = "load"
    /\ UNCHANGED <<fg_pc, loop, loop_stopping, loopq, last_cb, evq, torrents,
                   load_left, state_file_bad, stopping, stop_fut, stop_calls,
                   stop_first_th, stop_scheduled, shutdowns, loads, saves,
                   joins, fg_exc, adding, seen>>
    /\ UNCHANGED <<dlgVars, regVars>>

(* line 424, control.load: the next torrent of state.bin is added *)
LoadTorrent(h) ==
    /\ th_pc = "load"
    /\ h \in load_left
    /\ LET r == EngineCall(torrents, "add", h)
       IN  /\ r.raises = "none"
           /\ CanEmit("added")
           /\ torrents' = r.ts
           /\ evq' = Emit(evq, r.emits[1])
    /\ load_left' = load_left \ {h}
    /\ UNCHANGED <<fg_pc, th_pc, loop, loop_stopping, loopq, last_cb,
                   state_file_bad, stopping, stop_fut, stop_calls,
                   stop_first_th, stop_scheduled, shutdowns, loads, saves,
                   joins, fg_exc, adding, seen>>
    /\ UNCHANGED <<dlgVars, regVars>>

(* line 436: _load_state returns; run_forever is entered *)
LoadStateReturns ==
    /\ th_pc = "load"
    /\ load_left = {}
    /\ ~state_file_bad
    /\ loads' = loads + 1
    /\ th_pc' = "run"
    /\ UNCHANGED <<fg_pc, loop, loop_stopping, loopq, last_cb, evq, torrents,
                   load_left, state_file_bad, stopping, stop_fut, stop_calls,
                   stop_first_th, stop_scheduled, shutdowns, saves, joins,
                   fg_exc, adding, seen>>
    /\ UNCHANGED <<dlgVars, regVars>>

(* line 436: _load_state raises, outside the try of line 438: run() is    *)
(* left through the with of line 433                                      *)
LoadStateRaises ==
    /\ th_pc = "load"
    /\ state_file_bad
    /\ loads' = loads + 1
    /\ th_pc' = "close"
    /\ UNCHANGED <<fg_pc, loop, loop_stopping, loopq, last_cb, evq, torrents,
                   load_left, state_file_bad, stopping, stop_fut, stop_calls,
                   stop_first_th, stop_scheduled, shutdowns, saves, joins,
                   fg_exc, adding, seen>>
    /\ UNCHANGED <<dlgVars, regVars>>

(* run_forever runs the oldest scheduled callback *)
RunCallback ==
    /\ th_pc = "run"
    /\ ~loop_stopping
    /\ loopq # <<>>
    /\ LET cb == Head(loopq)
       IN  /\ loopq' = Tail(loopq)
           /\ IF cb.kind = "stop"
              THEN /\ shutdowns' = shutdowns + 1
                   /\ stop_fut' = "done"
                   /\ loop_stopping' = (stop_fut = "pending_cb")
                   /\ last_cb' = [kind |-> "stop", info_hash |-> 0,
                                   raised |-> "none", ended |-> "none",
                                   reported |-> "none"]
                   /\ UNCHANGED <<torrents, evq>>
              ELSE LET r == EngineCall(torrents, cb.kind, cb.info_hash)
                   IN  /\ r.emits # <<>> => CanEmit(r.emits[1].sig)
                       /\ torrents' = r.ts
                       /\ evq' = IF r.emits = <<>> THEN evq
                                 ELSE Emit(evq, r.emits[1])
                       /\ last_cb' =
                              [kind |-> cb.kind, info_hash |-> cb.info_hash,
                               raised |-> r.raises,
                               ended |-> IF cb.kind = "add" THEN r.raises
                                         ELSE InvokeControlAction(r.raises),
                               reported |-> Reported(cb.kind, r.raises)]
                       /\ UNCHANGED <<shutdowns, stop_fut, loop_stopping>>
    /\ UNCHANGED <<fg_pc, th_pc, loop, load_left, state_file_bad, stopping,
                   stop_calls, stop_first_th, stop_scheduled, loads, saves,
                   joins, fg_exc, adding, seen>>
    /\ UNCHANGED <<dlgVars, regVars>>

(* the engine reports progress of a running torrent: torrent_changed *)
EngineTick(h) ==
    /\ th_pc = "run"
    /\ shutdowns = 0
    /\ torrents[h] = "running"
    /\ CanEmit("changed")
    /\ evq' = Emit(evq, [sig |-> "changed", state |-> StateOf(h, FALSE)])
    /\ UNCHANGED <<fg_pc, th_pc, loop, loop_stopping, loopq, last_cb,
                   torrents, load_left, state_file_bad, stopping, stop_fut,
                   stop_calls, stop_first_th, stop_scheduled, shutdowns, loads,
                   saves, joins, fg_exc, adding, seen>>
    /\ UNCHANGED <<dlgVars, regVars>>

(* line 439: run_forever returns once the loop obeys loop.stop() *)
RunForeverReturns ==
    /\ th_pc = "run"
    /\ loop_stopping
    /\ loop_stopping' = FALSE
    /\ th_pc' = "save"
    /\ UNCHANGED <<fg_pc, loop, loopq, last_cb, evq, torrents, load_left,
                   state_file_bad, stopping, stop_fut, stop_calls,
                   stop_first_th, stop_scheduled, shutdowns, loads, saves,
                   joins, fg_exc, adding, seen>>
    /\ UNCHANGED <<dlgVars, regVars>>

(* line 441: _save_state, in the finally of run_forever *)
SaveState ==
    /\ th_pc = "save"
    /\ saves' = saves + 1
    /\ th_pc' = "close"
    /\ UNCHANGED <<fg_pc, loop, loop_stopping, loopq, last_cb, evq, torrents,
                   load_left, state_file_bad, stopping, stop_fut, stop_calls,
                   stop_first_th, stop_scheduled, shutdowns, loads, joins,
                   fg_exc, adding, seen>>
    /\ UNCHANGED <<dlgVars, regVars>>

(* line 433: closing(self._loop) closes the loop; run() returns *)
CloseLoop ==
    /\ th_pc = "close"
    /\ loop' = "closed"
    /\ th_pc' = "finished"
    /\ UNCHANGED <<fg_pc, loop_stopping, loopq, last_cb, evq, torrents,
                   load_left, state_file_bad, stopping, stop_fut, stop_calls,
                   stop_first_th, stop_scheduled, shutdowns, loads, saves,
                   joins, fg_exc, adding, seen>>
    /\ UNCHANGED <<dlgVars, regVars>>

Next ==
    \/ ThreadStart
    \/ MainStep
    \/ DispatchEvent
    \/ \E h \in EngineHashes : AddTorrentTriggered(h)
    \/ MessageBoxClosed
    \/ DialogSubmit
    \/ DialogCancel
    \/ \E kind \in ControlKinds :
           \E rows \in SUBSET (1..Len(list_widget)) :
               ControlActionTriggered(kind, rows)
    \/ Stop
    \/ StopAddDoneCallback
    \/ StopWait
    \/ NewEventLoop
    \/ ControlStart
    \/ \E h \in EngineHashes : LoadTorrent(h)
    \/ LoadStateReturns
    \/ LoadStateRaises
    \/ RunCallback
    \/ \E h \in EngineHashes : EngineTick(h)
    \/ RunForeverReturns
    \/ SaveState
    \/ CloseLoop

-----------------------------------------------------------------------------
(* The specifications *)

(* the part a specification does not drive stays as constructed *)
NoDialog ==
    /\ tree = 2
    /\ check_state = [i \in Items(tree) |-> Checked]
    /\ selection_label = [fmt |-> "Nothing to download"]
    /\ ok_enabled = FALSE
    /\ selected_download_dir = "cwd"
    /\ path_edit = "cwd"
    /\ dialog = "closed"
    /\ last_click = [item |-> 0, column |-> 0, kind |-> "none"]
    /\ submitted = [done |-> FALSE]

(* no state.bin *)
NoStateFile == load_left = {} /\ ~state_file_bad

InitSpecDialog == InitDialog /\ InitRegistry /\ InitBridge /\ NoStateFile

SpecDialog == InitSpecDialog /\ [][NextDialog]_vars

InitSpecRegistry == NoDialog /\ InitRegistry /\ InitBridge /\ NoStateFile

SpecRegistry == InitSpecRegistry /\ [][NextRegistry]_vars

Init == NoDialog /\ InitRegistry /\ InitBridge

Spec == Init /\ [][Next]_vars

-----------------------------------------------------------------------------
(* Properties of the add dialog (SpecDialog) *)

ClickedInColumn0 == last_click.kind # "none" /\ last_click.column = 0

(* the state the rule "all Checked / all Unchecked / otherwise Partial" gives *)
AggregateOfChildren(t, cs, item) ==
    IF \A c \in Children(t, item) : cs[c] = Checked THEN Checked
    ELSE IF \A c \in Children(t, item) : cs[c] = Unchecked THEN Unchecked
    ELSE PartiallyChecked

(* C2: after a click handled by _update_checkboxes, every ancestor of the   *)
(* clicked item, from its parent up to the top-level item, is Checked if    *)
(* all its children are Checked, Unchecked if all are Unchecked, and        *)
(* PartiallyChecked otherwise; and in the tree /a/x.txt /a/y.txt /b/z.txt   *)
(* with only y.txt and z.txt checked, /a is PartiallyChecked, /b is Checked *)
(* and the top-level item is PartiallyChecked.                              *)
C2_UpwardAggregation ==
    /\ ClickedInColumn0 =>
           \A a \in Ancestors(tree, last_click.item) :
               check_state[a] = AggregateOfChildren(tree, check_state, a)
    /\ (/\ tree = 1
        /\ ClickedInColumn0
        /\ check_state[4] = Unchecked
        /\ check_state[5] = Checked
        /\ check_state[6] = Checked)
       => (/\ check_state[2] = PartiallyChecked
           /\ check_state[3] = Checked
           /\ check_state[1] = PartiallyChecked)

C2_Witness ==
    /\ tree = 1
    /\ last_click = [item |-> 4, column |-> 0, kind |-> "box"]
    /\ check_state[4] = Unchecked
    /\ check_state[5] = Checked
    /\ check_state[6] = Checked
    /\ check_state[2] = PartiallyChecked
    /\ check_state[1] = PartiallyChecked

(* C3: a step in which _update_checkboxes handles a click on an item whose  *)
(* state is then Checked or Unchecked leaves every descendant of the item,  *)
(* at every depth, in that state, and changes no item outside the item's    *)
(* subtree and its chain of ancestors.                                      *)
C3_DownwardPropagation ==
    [][ LET item == last_click'.item
            state == check_state'[item]
        IN  (/\ last_click'.kind # "none"
             /\ last_click'.column = 0
             /\ <<last_click, check_state>>' # <<last_click, check_state>>
             /\ state \in {Checked, Unchecked})
            => /\ \A d \in Descendants(tree, item) : check_state'[d] = state
               /\ \A i \in Items(tree) \ (Descendants(tree, item)
                                           \cup Ancestors(tree, item)
                                           \cup {item}) :
                      check_state'[i] = check_state[i] ]_vars

C3_Witness ==
    /\ tree = 3
    /\ last_click = [item |-> 2, column |-> 0, kind |-> "box"]
    /\ check_state[2] = Unchecked
    /\ check_state[3] = Unchecked
    /\ check_state[4] = Unchecked
    /\ check_state[5] = Unchecked
    /\ check_state[6] = Checked

CheckedLeaves == {i \in Items(tree) : IsFile(tree, i) /\ check_state[i] = Checked}

RECURSIVE SumOverSet(_, _)
SumOverSet(t, S) ==
    IF S = {} THEN 0
    ELSE LET i == CHOOSE x \in S : TRUE
         IN  FileTrees[t].length[i] + SumOverSet(t, S \ {i})

ReportedCount ==
    IF selection_label.fmt = "Nothing to download" THEN 0 ELSE selection_label.count
ReportedSize ==
    IF selection_label.fmt = "Nothing to download" THEN 0 ELSE selection_label.size

(* C4: the label always reports the number of file items that are Checked   *)
(* and the sum of their lengths; before any click that is the torrent's     *)
(* file count and total size.                                               *)
C4_Aggregates ==
    /\ ReportedCount = Cardinality(CheckedLeaves)
    /\ ReportedSize = SumOverSet(tree, CheckedLeaves)
    /\ last_click.kind = "none" =>
           /\ ReportedCount = Cardinality({i \in Items(tree) : IsFile(tree, i)})
           /\ ReportedSize = SumOverSet(tree, {i \in Items(tree) : IsFile(tree, i)})

C4_Witness ==
    /\ tree = 1
    /\ last_click.kind = "box"
    /\ CheckedLeaves = {5, 6}
    /\ ReportedCount = 2
    /\ ReportedSize = 250

(* C8: the Ok button is enabled exactly when some file item is Checked, and *)
(* what submit_torrent handed over never has an empty list of files.        *)
C8_NoEmptySubmission ==
    /\ ok_enabled <=> CheckedLeaves # {}
    /\ submitted.done => Len(submitted.file_paths) > 0

C8_Witness ==
    /\ last_click.kind # "none"
    /\ CheckedLeaves = {}
    /\ ~ok_enabled
    /\ dialog = "open"

(* C14: in the dialog of a single-file torrent no click changes a check    *)
(* state: every item stays Checked, the Ok button stays enabled while the  *)
(* dialog is open, and what is submitted has the torrent's one file        *)
(* selected.                                                               *)
C14_SingleFileAlwaysSelected ==
    FileTrees[tree].single_file_mode =>
        /\ \A i \in Items(tree) : check_state[i] = Checked
        /\ dialog = "open" => ok_enabled
        /\ submitted.done => submitted.file_paths = FileItems(tree)

Leaves(t) == {i \in Items(t) : IsFile(t, i)}

AllUnchecked == \A i \in Items(tree) : check_state[i] = Unchecked

(* a step in which the box of one file of an all-Unchecked tree is checked *)
OneLeafChecked ==
    /\ AllUnchecked
    /\ last_click'.kind = "box"
    /\ last_click'.item \in Leaves(tree)
    /\ check_state'[last_click'.item] = Checked

(* C16: the top-level item is Checked only when every file item is         *)
(* Checked; and when the box of one file of an all-Unchecked tree is       *)
(* checked, the top-level item becomes PartiallyChecked if the tree has    *)
(* another file, and Checked if that file is the tree's only one.          *)
C16_RootAfterOneLeaf ==
    /\ [](check_state[1] = Checked =>
              \A i \in Leaves(tree) : check_state[i] = Checked)
    /\ [][ OneLeafChecked =>
               check_state'[1] = IF Cardinality(Leaves(tree)) = 1
                                 THEN Checked ELSE PartiallyChecked ]_vars

C16_Witness ==
    /\ tree = 3
    /\ last_click = [item |-> 5, column |-> 0, kind |-> "box"]
    /\ check_state[5] = Checked
    /\ \A i \in Leaves(tree) \ {5} : check_state[i] = Unchecked
    /\ check_state[1] = PartiallyChecked
    /\ check_state[2] = PartiallyChecked

(* C16 as stated: the top-level item becomes PartiallyChecked in every     *)
(* tree shape, a tree of a single file included.                           *)
C16_RootPartialInEveryShape ==
    /\ [](check_state[1] = Checked =>
              \A i \in Leaves(tree) : check_state[i] = Checked)
    /\ [][ OneLeafChecked => check_state'[1] = PartiallyChecked ]_vars

(* the file items in a sequence, as a set *)
Range(seq) == {seq[k] : k \in 1..Len(seq)}

(* C17: what submit_torrent of a multi-file torrent hands to the loop has  *)
(* as its whitelist exactly the file items that are Checked at that        *)
(* moment, each once, and as its download directory the one the dialog     *)
(* shows; and no later step of the foreground writes it.                   *)
C17_SubmitPayload ==
    /\ []((submitted.done /\ submitted.select_files) =>
              /\ Range(submitted.file_paths) = CheckedLeaves
              /\ Len(submitted.file_paths) = Cardinality(CheckedLeaves)
              /\ Len(submitted.file_paths) = ReportedCount
              /\ submitted.download_dir = path_edit)
    /\ [][ submitted.done => submitted' = submitted ]_vars

C17_Witness ==
    /\ tree = 1
    /\ dialog = "submitted"
    /\ submitted.done
    /\ submitted.select_files
    /\ submitted.file_paths = <<5, 6>>
    /\ submitted.download_dir = "other"
    /\ path_edit = "other"

(* C18: no file item is ever PartiallyChecked.                             *)
C18_NoPartialLeaf ==
    \A i \in Leaves(tree) : check_state[i] # PartiallyChecked

-----------------------------------------------------------------------------
(* Properties of the torrent list (SpecRegistry) *)

ListedHashes == {list_widget[k].state.info_hash : k \in 1..Len(list_widget)}

SortedByName ==
    \A i, j \in 1..Len(list_widget) :
        i < j => list_widget[i].state.suggested_name
                     <= list_widget[j].state.suggested_name

(* C1: after every handler call the rows are in ascending order of name and *)
(* the info_hashes of the rows are exactly the keys of _torrent_to_item.     *)
C1_SortedAndSameIds ==
    /\ SortedByName
    /\ ListedHashes = DOMAIN torrent_to_item

(* C9: no two rows of the list carry the same info_hash (an added event for *)
(* an info_hash that has a row is rejected).                                *)
C9_NoDuplicateRow ==
    \A i, j \in 1..Len(list_widget) :
        i # j => list_widget[i].state.info_hash # list_widget[j].state.info_hash

(* C10: _update_torrent_item and _remove_torrent_item called for an         *)
(* info_hash that is no key of _torrent_to_item end in KeyError and leave   *)
(* the rows and the dictionary as they were; _update_torrent_item called    *)
(* for a key succeeds, keeps the dictionary and every row's item and        *)
(* position, gives the key's row the new state and leaves the other rows'   *)
(* states as they were.                                                     *)
C10_UpdateRemoveContract ==
    [][ LET h == reg_op'.state.info_hash
        IN  (/\ <<list_widget, torrent_to_item, reg_op, reg_result>>'
                    # <<list_widget, torrent_to_item, reg_op, reg_result>>
             /\ reg_op'.op \in {"update", "remove"})
            => IF h \notin DOMAIN torrent_to_item
               THEN /\ reg_result' = "KeyError"
                    /\ list_widget' = list_widget
                    /\ torrent_to_item' = torrent_to_item
               ELSE /\ reg_result' = "ok"
                    /\ reg_op'.op = "update" =>
                         /\ torrent_to_item' = torrent_to_item
                         /\ Len(list_widget') = Len(list_widget)
                         /\ \A k \in 1..Len(list_widget) :
                                /\ list_widget'[k].item = list_widget[k].item
                                /\ list_widget'[k].state =
                                       IF list_widget[k].item = torrent_to_item[h]
                                       THEN reg_op'.state
                                       ELSE list_widget[k].state ]_vars

C10_Witness ==
    /\ reg_op.op = "update"
    /\ reg_result = "KeyError"
    /\ Len(list_widget) = 2
    /\ reg_op.state.info_hash \notin DOMAIN torrent_to_item

-----------------------------------------------------------------------------
(* Properties of the two threads (Spec) *)

(* C5: when the first call of stop() is made while run() is in             *)
(* run_forever, control.stop() is scheduled at most once, _save_state runs  *)
(* at most once and wait() returns at most once, each exactly once by the   *)
(* time a call of stop() has returned; and every call of stop() after the   *)
(* first changes nothing.                                                   *)
C5_StopIdempotent ==
    /\ [](stop_first_th = "run" =>
              /\ stop_scheduled <= 1 /\ shutdowns <= 1 /\ saves <= 1 /\ joins <= 1
              /\ fg_pc = "closed" =>
                     /\ stop_scheduled = 1 /\ shutdowns = 1
                     /\ saves = 1 /\ joins = 1)
    /\ [][ (stop_first_th = "run" /\ stop_calls >= 1 /\ stop_calls' = stop_calls + 1)
           => UNCHANGED <<fg_pc, th_pc, loop, loop_stopping, loopq, last_cb, evq,
                          torrents, load_left, state_file_bad, stopping,
                          stop_fut, stop_first_th, stop_scheduled, shutdowns,
                          loads, saves, joins, fg_exc, adding, seen, regVars,
                          dlgVars>> ]_vars

C5_Witness ==
    /\ stop_first_th = "run"
    /\ stop_calls = 2
    /\ fg_pc = "closed"
    /\ stop_scheduled = 1
    /\ saves = 1
    /\ joins = 1

(* C6: a torrent_changed is dispatched to the foreground for an info_hash   *)
(* only when the last of torrent_added and torrent_removed dispatched for   *)
(* it is torrent_added: never before its added, never after its removed.    *)
C6_EventOrder ==
    reg_op.op = "update" => seen[reg_op.state.info_hash] = "added"

UnknownToEngine(h) == torrents[h] = "absent"

(* C7: while the main window shows a row whose torrent the engine does not  *)
(* know, scheduling onto the loop raises nothing in the foreground; and the *)
(* step in which the loop runs pause, resume or remove for a torrent the    *)
(* engine does not know ends without an exception, queues no signal for the *)
(* foreground, raises nothing there and leaves the list, the dictionary and *)
(* the engine's torrents as they were.                                      *)
C7_UnknownIdIsSilent ==
    /\ []((/\ fg_pc = "exec"
           /\ \E k \in 1..Len(list_widget) :
                  UnknownToEngine(list_widget[k].state.info_hash))
          => ScheduleRaises(loop) = "none")
    /\ [][ (/\ loopq # <<>>
            /\ loopq' = Tail(loopq)
            /\ Head(loopq).kind \in ControlKinds
            /\ UnknownToEngine(Head(loopq).info_hash))
           => /\ last_cb'.ended = "none"
              /\ evq' = evq
              /\ fg_exc' = fg_exc
              /\ torrents' = torrents
              /\ UNCHANGED <<list_widget, torrent_to_item, seen>> ]_vars

C7_Witness ==
    /\ last_cb.kind = "pause"
    /\ last_cb.raised = "ValueError"
    /\ last_cb.ended = "none"
    /\ UnknownToEngine(last_cb.info_hash)
    /\ last_cb.info_hash \in DOMAIN torrent_to_item
    /\ fg_exc = "none"

(* C11: _add_torrent_triggered for a torrent that has a row shows the      *)
(* message box, opens no dialog and hands nothing to the loop; and an add  *)
(* that the engine refuses as a duplicate is shown to the user as well.    *)
C11_DuplicateAddShown ==
    /\ []((last_cb.kind = "add" /\ last_cb.raised = "ValueError")
              => last_cb.reported = "shown")
    /\ [][ (adding = 0 /\ adding' # 0)
           => adding' \notin DOMAIN torrent_to_item ]_vars
    /\ [][ (fg_pc = "exec" /\ fg_pc' = "message_box")
           => (torrent_to_item # <<>> /\ adding' = 0 /\ loopq' = loopq) ]_vars

(* C12: when _load_state fails, run() still enters run_forever, and a      *)
(* run() that has returned has saved the state.                            *)
C12_LoadFailureIsColdStart ==
    /\ (state_file_bad /\ loads = 1 /\ shutdowns = 0) => th_pc = "run"
    /\ (state_file_bad /\ th_pc = "finished") => saves = 1

(* C13: a callback of the loop never raises into the foreground, and       *)
(* every callback that the engine answered with an exception is logged or  *)
(* shown.                                                                  *)
C13_NoFailureDropped ==
    /\ [](last_cb.kind # "none" =>
              (last_cb.raised # "none" => last_cb.reported # "none"))
    /\ [][ (loopq # <<>> /\ loopq' = Tail(loopq)) => fg_exc' = fg_exc ]_vars

(* C15: _load_state runs at most once, on the background thread, after     *)
(* control.start() and before run_forever; _save_state runs at most once,  *)
(* on the background thread, after control.stop() has run and run_forever  *)
(* has returned; a run() that has returned has saved exactly once.         *)
C15_PersistenceOrder ==
    /\ [](/\ loads <= 1
          /\ saves <= 1
          /\ th_pc \in {"unstarted", "new_loop", "start"} => loads = 0
          /\ th_pc = "run" => (loads = 1 /\ saves = 0)
          /\ saves = 1 => (shutdowns = 1 /\ th_pc \in {"close", "finished"})
          /\ th_pc = "finished" => saves = 1)
    /\ [][ /\ loads' # loads => (th_pc = "load" /\ fg_pc' = fg_pc)
           /\ saves' # saves => (th_pc = "save" /\ fg_pc' = fg_pc) ]_vars

(* C19: no call of call_soon_threadsafe or run_coroutine_threadsafe finds  *)
(* _loop None or closed.                                                   *)
C19_LoopReadyWhenScheduling ==
    fg_exc \notin {"AttributeError", "RuntimeError"}

(* C20: when the main window is up and no signal is waiting for the        *)
(* foreground, every torrent the engine knows has a row.                   *)
C20_NoAddedLost ==
    (fg_pc = "exec" /\ evq = <<>>) =>
        \A h \in EngineHashes :
            torrents[h] # "absent" => h \in DOMAIN torrent_to_item

====
